---- MODULE Spec2Model ----
(***************************************************************************)
(* A model of subgen.py: the batch subtitle generator.  One run of main()  *)
(* validates the target directory, probes the whisper engine (unless       *)
(* --dry-run), walks the tree for video files, filters out the videos that *)
(* already have a same-stem .srt (unless --override-existing), asks for    *)
(* confirmation when more than one file is selected and then invokes the   *)
(* engine once per file.  The file system persists from one run to the     *)
(* next; everything else is local to a run.                                *)
(*                                                                         *)
(* Strings are sequences of one-character strings, so that str.lower(),    *)
(* Path.suffix, Path.with_suffix and the sort order of names are computed  *)
(* the way Python computes them.  A path is a sequence of names.           *)
(***************************************************************************)
EXTENDS Integers, Sequences, FiniteSets, TLC

\* The number of consecutive runs of main() on the same file system.
MaxRuns == 2

----------------------------------------------------------------------------
(* Characters and strings *)

Lowers == <<"a","b","c","d","e","f","g","h","i","j","k","l","m",
            "n","o","p","q","r","s","t","u","v","w","x","y","z">>
Uppers == <<"A","B","C","D","E","F","G","H","I","J","K","L","M",
            "N","O","P","Q","R","S","T","U","V","W","X","Y","Z">>
Digits == <<"0","1","2","3","4","5","6","7","8","9">>

Range(s) == {s[i] : i \in 1..Len(s)}

Chars == Range(Lowers) \cup Range(Uppers) \cup Range(Digits) \cup {".", " "}

IndexIn(s, c) == CHOOSE i \in 1..Len(s) : s[i] = c

\* The code point of a character (ASCII).
Ascii ==
    [c \in Chars |->
        IF c \in Range(Lowers) THEN 96 + IndexIn(Lowers, c)
        ELSE IF c \in Range(Uppers) THEN 64 + IndexIn(Uppers, c)
        ELSE IF c \in Range(Digits) THEN 47 + IndexIn(Digits, c)
        ELSE IF c = "." THEN 46 ELSE 32]

Chr(n) == CHOOSE c \in Chars : Ascii[c] = n

\* str.lower() on one character: the upper-case letters move to lower case.
LowerChar(c) == IF Ascii[c] >= 65 /\ Ascii[c] <= 90 THEN Chr(Ascii[c] + 32) ELSE c

\* str.lower()
Lower(s) == [i \in 1..Len(s) |-> LowerChar(s[i])]

\* Python's < on str: lexicographic by code point, a proper prefix first.
RECURSIVE StrLess(_, _)
StrLess(a, b) ==
    IF b = <<>> THEN FALSE
    ELSE IF a = <<>> THEN TRUE
    ELSE IF Head(a) = Head(b) THEN StrLess(Tail(a), Tail(b))
    ELSE Ascii[Head(a)] < Ascii[Head(b)]

\* Path.__lt__: lexicographic on the parts, each part compared as a str.
RECURSIVE PathLess(_, _)
PathLess(p, q) ==
    IF q = <<>> THEN FALSE
    ELSE IF p = <<>> THEN TRUE
    ELSE IF Head(p) = Head(q) THEN PathLess(Tail(p), Tail(q))
    ELSE StrLess(Head(p), Head(q))

\* list.sort() on a list of str (insertion into the sorted prefix; stable).
RECURSIVE InsertName(_, _)
InsertName(sorted, x) ==
    IF sorted = <<>> THEN <<x>>
    ELSE IF StrLess(x, Head(sorted)) THEN <<x>> \o sorted
    ELSE <<Head(sorted)>> \o InsertName(Tail(sorted), x)

RECURSIVE SortNames(_)
SortNames(s) ==
    IF s = <<>> THEN <<>> ELSE InsertName(SortNames(SubSeq(s, 1, Len(s) - 1)), s[Len(s)])

\* list.sort() on a list of Path.
RECURSIVE InsertPath(_, _)
InsertPath(sorted, x) ==
    IF sorted = <<>> THEN <<x>>
    ELSE IF PathLess(x, Head(sorted)) THEN <<x>> \o sorted
    ELSE <<Head(sorted)>> \o InsertPath(Tail(sorted), x)

RECURSIVE SortPaths(_)
SortPaths(s) ==
    IF s = <<>> THEN <<>> ELSE InsertPath(SortPaths(SubSeq(s, 1, Len(s) - 1)), s[Len(s)])

\* Some enumeration of a finite set as a list: the order scandir happens to give.
RECURSIVE SetToSeq(_)
SetToSeq(S) ==
    IF S = {} THEN <<>> ELSE LET x == CHOOSE y \in S : TRUE IN <<x>> \o SetToSeq(S \ {x})

----------------------------------------------------------------------------
(* pathlib *)

\* str.rfind('.') counted from 1; 0 when there is no dot.
RECURSIVE RFindDot(_)
RFindDot(name) ==
    IF name = <<>> THEN 0
    ELSE IF name[Len(name)] = "." THEN Len(name)
    ELSE RFindDot(SubSeq(name, 1, Len(name) - 1))

\* PurePath.suffix of a file name: the last dot and what follows it, unless the
\* dot is the first or the last character.
Suffix(name) ==
    LET i == RFindDot(name)
    IN IF 1 < i /\ i < Len(name) THEN SubSeq(name, i, Len(name)) ELSE <<>>

Name(path) == path[Len(path)]
Parent(path) == SubSeq(path, 1, Len(path) - 1)

\* A slip: the suffix is appended to the whole name, as in Path(str(p) + '.srt').
with_suffix_Appending(path, suffix) == Append(Parent(path), Name(path) \o suffix)

\* PurePath.with_suffix(suffix): the name without its suffix, plus the new one.
with_suffix(path, suffix) ==
    LET name == Name(path)
        stem == SubSeq(name, 1, Len(name) - Len(Suffix(name)))
    IN Append(Parent(path), stem \o suffix)

SRT == <<".","s","r","t">>

VIDEO_EXTENSIONS ==
    { <<".","m","p","4">>, <<".","a","v","i">>, <<".","m","k","v">>,
      <<".","m","o","v">>, <<".","w","m","v">>, <<".","f","l","v">>,
      <<".","w","e","b","m">>, <<".","m","4","v">>, <<".","3","g","p">>,
      <<".","o","g","v">>, <<".","t","s">>, <<".","m","t","s">>,
      <<".","m","2","t","s">> }

\* file_path.suffix.lower() in VIDEO_EXTENSIONS
IsVideo(path) == Lower(Suffix(Name(path))) \in VIDEO_EXTENSIONS

----------------------------------------------------------------------------
(* The file system *)

Str_r == <<"r">>
Str_a == <<"a">>
Str_s == <<"s">>
Str_x == <<"x">>

Root == <<Str_r>>
DirA == <<Str_r, Str_a>>
DirS == <<Str_r, Str_s>>
Dirs == {Root, DirA, DirS}

File_a_mkv == Append(Root, <<"a",".","m","k","v">>)
File_a_mp4 == Append(Root, <<"a",".","m","p","4">>)
File_a_srt == Append(Root, <<"a",".","s","r","t">>)
File_b_MKV == Append(Root, <<"b",".","M","K","V">>)
File_notes == Append(Root, <<"n","o","t","e","s",".","t","x","t">>)
File_c_mp4 == Append(DirA, <<"c",".","m","p","4">>)

\* notes.txt is always there; every other file may or may not be.
FixedFiles == {File_notes}
OptionalFiles == {File_a_mkv, File_a_mp4, File_a_srt, File_b_MKV, File_c_mp4}

\* The directories whose listing may be denied to the process.
Deniable == {DirA, DirS}

\* The values of the positional argument: the tree, a regular file, a missing path.
Targets == {Root, File_notes, <<Str_x>>}

\* What the operator may type at the prompt.
Responses ==
    { <<"y">>, <<"Y","e","s">>,
      <<"n">>, <<"n","o">>, <<>>, <<"y","e">>, <<"y"," ">> }

\* input(): nothing read yet, a line read, or EOFError on a closed standard input.
NoResponse == [read |-> FALSE, eof |-> FALSE, text |-> <<>>]
Typed(text) == [read |-> TRUE, eof |-> FALSE, text |-> text]
EndOfInput == [read |-> TRUE, eof |-> TRUE, text |-> <<>>]

\* How the probe's subprocess.run(['whisper', '--help'], timeout=10) may end.
ProbeOutcomes == {"zero", "nonzero", "timeout", "notfound"}

VARIABLES
    files,              \* the regular files that exist (paths)
    denied,             \* the directories whose listing raises PermissionError
    run,                \* the number of runs of main() started so far
    prev,               \* what the previous run was and how it ended
    pc,                 \* where main() is
    directory,          \* args.directory
    dry_run,            \* args.dry_run
    override_existing,  \* args.override_existing
    probeOutcome,       \* how this run's probe ended, "none" when not probed
    stack,              \* os.walk: the directories still to list
    video_files,        \* main's video_files
    scanned,            \* find_video_files' result, kept when main filters it
    skipped,            \* the candidates reported as skipped, in order
    response,           \* what input() returned
    successful,
    failed,
    idx,                \* the for loop's position in video_files, from 1
    invocations,        \* the calls of generate_subtitle so far, in order
    exitStatus,         \* the process exit status, -1 while running
    out                 \* the messages printed by this run, in order

vars == <<files, denied, run, prev, pc, directory, dry_run, override_existing,
          probeOutcome, stack, video_files, scanned, skipped, response,
          successful, failed, idx, invocations, exitStatus, out>>

\* Path.exists(), Path.is_dir()
exists(p) == p \in files \/ p \in Dirs
is_dir(p) == p \in Dirs

Printed(tag) == \E i \in 1..Len(out) : out[i][1] = tag
PrintedWith(tag, arg) == \E i \in 1..Len(out) : out[i] = <<tag, arg>>

NoPrev ==
    [directory |-> <<>>, dry_run |-> FALSE, override_existing |-> FALSE,
     completed |-> FALSE, failed |-> 0]

Init ==
    /\ files \in {FixedFiles \cup S : S \in SUBSET OptionalFiles}
    /\ denied \in SUBSET Deniable
    /\ run = 0
    /\ prev = NoPrev
    /\ pc = "idle"
    /\ directory = <<>>
    /\ dry_run = FALSE
    /\ override_existing = FALSE
    /\ probeOutcome = "none"
    /\ stack = <<>>
    /\ video_files = <<>>
    /\ scanned = <<>>
    /\ skipped = <<>>
    /\ response = NoResponse
    /\ successful = 0
    /\ failed = 0
    /\ idx = 1
    /\ invocations = <<>>
    /\ exitStatus = -1
    /\ out = <<>>

\* sys.exit(code) after printing msgs.
Exit(code, msgs) ==
    /\ pc' = "exited"
    /\ exitStatus' = code
    /\ out' = out \o msgs

----------------------------------------------------------------------------
(* main(): argument parsing and directory validation *)

\* The directory checks of main: 0 to go on, otherwise the exit status.
ValidateDirectory(d) == IF ~exists(d) \/ ~is_dir(d) THEN 1 ELSE 0

Main ==
    /\ pc \in {"idle", "exited"}
    /\ run < MaxRuns
    /\ run' = run + 1
    /\ prev' = IF pc = "exited"
               THEN [directory |-> directory, dry_run |-> dry_run,
                     override_existing |-> override_existing,
                     completed |-> Printed("Completed"), failed |-> failed]
               ELSE prev
    /\ \E d \in Targets, n \in BOOLEAN, o \in BOOLEAN :
        /\ directory' = d
        /\ dry_run' = n
        /\ override_existing' = o
        /\ IF ValidateDirectory(d) # 0
           THEN /\ pc' = "exited"
                /\ exitStatus' = ValidateDirectory(d)
                /\ out' = IF ~exists(d) THEN << <<"ErrorNotExist", d>> >>
                          ELSE << <<"ErrorNotDir", d>> >>
           ELSE /\ pc' = "probe"
                /\ exitStatus' = -1
                /\ out' = <<>>
    /\ probeOutcome' = "none"
    /\ stack' = <<>>
    /\ video_files' = <<>>
    /\ scanned' = <<>>
    /\ skipped' = <<>>
    /\ response' = NoResponse
    /\ successful' = 0
    /\ failed' = 0
    /\ idx' = 1
    /\ invocations' = <<>>
    /\ UNCHANGED <<files, denied>>

----------------------------------------------------------------------------
(* The capability probe *)

\* A slip: the return code is not looked at.
check_whisper_installed_AnyExit(outcome) == outcome \in {"zero", "nonzero"}

\* check_whisper_installed(): True when whisper --help exits 0; False when it
\* exits non-zero, times out or is not found.
check_whisper_installed(outcome) == outcome = "zero"

\* A slip: the probe runs whatever the mode.
NeedsProbe_Always(dry) == TRUE

\* `not args.dry_run and ...': the probe runs only when dry-run is not set.
NeedsProbe(dry) == ~dry

StartScan ==
    /\ pc' = "scan"
    /\ stack' = <<directory>>
    /\ out' = Append(out, <<"Scanning", directory>>)
    /\ UNCHANGED exitStatus

Probe ==
    /\ pc = "probe"
    /\ IF NeedsProbe(dry_run)
       THEN \E o \in ProbeOutcomes :
                /\ probeOutcome' = o
                /\ IF check_whisper_installed(o)
                   THEN StartScan
                   ELSE /\ Exit(1, << <<"ErrorWhisper", <<>> >> >>)
                        /\ UNCHANGED stack
       ELSE /\ StartScan
            /\ UNCHANGED probeOutcome
    /\ UNCHANGED <<files, denied, run, prev, directory, dry_run, override_existing,
                   video_files, scanned, skipped, response, successful, failed,
                   idx, invocations>>

----------------------------------------------------------------------------
(* find_video_files *)

\* What os.scandir(top) lists: the names of the files and of the directories.
FileNamesIn(top) == {Name(f) : f \in {g \in files : Parent(g) = top}}
DirNamesIn(top) == {Name(d) : d \in {e \in Dirs : Len(e) > 1 /\ Parent(e) = top}}

\* Path(root) / file for every file of the list.
RECURSIVE JoinAll(_, _)
JoinAll(top, names) ==
    IF names = <<>> THEN <<>> ELSE <<Append(top, Head(names))>> \o JoinAll(top, Tail(names))

\* The body of the for loop for one directory: the sorted files that are videos.
VideosOf(top) ==
    SelectSeq(JoinAll(top, SortNames(SetToSeq(FileNamesIn(top)))), IsVideo)

\* One iteration of `for root, dirs, files in os.walk(directory)'.  os.walk is
\* called without onerror, so a directory whose listing fails is left out
\* without raising: the except clauses of find_video_files are not reached and
\* nothing is printed.  dirs.sort() fixes the order of the descent.
WalkStep ==
    /\ pc = "scan"
    /\ stack # <<>>
    /\ LET top == Head(stack)
       IN IF top \in denied
          THEN /\ stack' = Tail(stack)
               /\ UNCHANGED video_files
          ELSE /\ video_files' = video_files \o VideosOf(top)
               /\ stack' = JoinAll(top, SortNames(SetToSeq(DirNamesIn(top)))) \o Tail(stack)
    /\ UNCHANGED <<files, denied, run, prev, pc, directory, dry_run, override_existing,
                   probeOutcome, scanned, skipped, response, successful, failed,
                   idx, invocations, exitStatus, out>>

\* A slip: the empty result is not looked at.
NoVideoFiles_Never(vf) == FALSE

\* `if not video_files'
NoVideoFiles(vf) == vf = <<>>

\* The end of find_video_files (the final sort) and main's check of its result.
ScanDone ==
    /\ pc = "scan"
    /\ stack = <<>>
    /\ LET found == SortPaths(video_files)
       IN /\ video_files' = found
          /\ scanned' = found
          /\ IF NoVideoFiles(found)
             THEN Exit(0, << <<"NoVideoFiles", <<>> >> >>)
             ELSE /\ pc' = "filter"
                  /\ out' = Append(out, <<"Found", found>>)
                  /\ UNCHANGED exitStatus
    /\ UNCHANGED <<files, denied, run, prev, directory, dry_run, override_existing,
                   probeOutcome, stack, skipped, response, successful, failed,
                   idx, invocations>>

----------------------------------------------------------------------------
(* The existing-artifact filter *)

\* A slip: the existence of the subtitle file is not looked at.
FilterLoop_KeepAll(vs) == [selected |-> vs, skipped |-> <<>>]

\* The loop over video_files: a file is kept when its .srt does not exist and
\* reported as skipped otherwise.
RECURSIVE FilterLoop(_)
FilterLoop(vs) ==
    IF vs = <<>> THEN [selected |-> <<>>, skipped |-> <<>>]
    ELSE LET rest == FilterLoop(Tail(vs))
             subtitle_file == with_suffix(Head(vs), SRT)
         IN IF ~exists(subtitle_file)
            THEN [selected |-> <<Head(vs)>> \o rest.selected, skipped |-> rest.skipped]
            ELSE [selected |-> rest.selected, skipped |-> <<Head(vs)>> \o rest.skipped]

SkipMessages(sk) == [i \in 1..Len(sk) |-> <<"Skipping", sk[i]>>]

Filter ==
    /\ pc = "filter"
    /\ IF ~override_existing
       THEN LET r == FilterLoop(video_files)
            IN /\ video_files' = r.selected
               /\ skipped' = r.skipped
               /\ IF r.selected = <<>>
                  THEN Exit(0, SkipMessages(r.skipped) \o << <<"AllHaveSubtitles", <<>> >> >>)
                  ELSE /\ pc' = "gate"
                       /\ out' = out \o SkipMessages(r.skipped)
                       /\ UNCHANGED exitStatus
       ELSE /\ pc' = "gate"
            /\ UNCHANGED <<video_files, skipped, exitStatus, out>>
    /\ UNCHANGED <<files, denied, run, prev, directory, dry_run, override_existing,
                   probeOutcome, stack, scanned, response, successful, failed,
                   idx, invocations>>

----------------------------------------------------------------------------
(* The confirmation gate *)

\* A slip: an off-by-one in the threshold.
NeedsConfirm_OverTwo(n) == n > 2

\* `if len(video_files) > 1'
NeedsConfirm(n) == n > 1

\* `response.lower() not in ['y', 'yes']', negated.
Affirmative(text) == Lower(text) \in { <<"y">>, <<"y","e","s">> }

Gate ==
    /\ pc = "gate"
    /\ IF dry_run
       THEN Exit(0, << <<"WillProcess", video_files>>, <<"DryRunComplete", <<>> >> >>)
       ELSE /\ pc' = IF NeedsConfirm(Len(video_files)) THEN "prompt" ELSE "batch"
            /\ out' = out \o << <<"WillProcess", video_files>> >>
                          \o (IF NeedsConfirm(Len(video_files)) THEN <<>>
                              ELSE << <<"Generating", <<>> >> >>)
            /\ UNCHANGED exitStatus
    /\ UNCHANGED <<files, denied, run, prev, directory, dry_run, override_existing,
                   probeOutcome, stack, video_files, scanned, skipped, response,
                   successful, failed, idx, invocations>>

\* input() returns a line, or raises EOFError, which nothing catches: the
\* interpreter prints the traceback and exits with status 1.
Prompt ==
    /\ pc = "prompt"
    /\ \E r \in {Typed(t) : t \in Responses} \cup {EndOfInput} :
        /\ response' = r
        /\ IF r.eof
           THEN Exit(1, << <<"Traceback", <<>> >> >>)
           ELSE IF ~Affirmative(r.text)
           THEN Exit(0, << <<"Cancelled", <<>> >> >>)
           ELSE /\ pc' = "batch"
                /\ out' = Append(out, <<"Generating", <<>> >>)
                /\ UNCHANGED exitStatus
    /\ UNCHANGED <<files, denied, run, prev, directory, dry_run, override_existing,
                   probeOutcome, stack, video_files, scanned, skipped,
                   successful, failed, idx, invocations>>

----------------------------------------------------------------------------
(* The batch runner *)

\* Where whisper writes its output for --output_dir <parent> --output_format srt:
\* the input's base name without its extension, plus ".srt", in the parent.
EngineOutput(video_path) ==
    LET name == Name(video_path)
        i == RFindDot(name)
        base == IF i > 1 THEN SubSeq(name, 1, i - 1) ELSE name
    IN Append(Parent(video_path), base \o SRT)

\* A slip: the except clause reports success.
generate_subtitle_RaiseIsSuccess(outcome) == outcome # "nonzero"

\* What generate_subtitle returns: True when the engine exited 0 ("zero"),
\* False when it exited non-zero ("nonzero") or subprocess.run raised ("raise").
generate_subtitle(outcome) == outcome = "zero"

\* The counters after one call of generate_subtitle.
Count(result) ==
    /\ successful' = IF result THEN successful + 1 ELSE successful
    /\ failed' = IF result THEN failed ELSE failed + 1

\* generate_subtitle up to subprocess.run: the engine starts and main blocks on
\* it, or starting it raises and the except clause returns False.
Launch ==
    /\ pc = "batch"
    /\ idx <= Len(video_files)
    /\ LET video_file == video_files[idx]
           call == [file |-> video_file,
                    srtExisted |-> exists(with_suffix(video_file, SRT))]
       IN \E started \in BOOLEAN :
            IF started
            THEN /\ pc' = "engine"
                 /\ invocations' = Append(invocations,
                        call @@ [outcome |-> "running", result |-> FALSE])
                 /\ out' = Append(out, <<"Processing", video_file>>)
                 /\ UNCHANGED <<successful, failed, idx>>
            ELSE /\ pc' = "batch"
                 /\ invocations' = Append(invocations,
                        call @@ [outcome |-> "raise", result |-> generate_subtitle("raise")])
                 /\ out' = out \o << <<"Processing", video_file>>, <<"ErrorProcessing", video_file>> >>
                 /\ Count(generate_subtitle("raise"))
                 /\ idx' = idx + 1
    /\ UNCHANGED <<files, denied, run, prev, directory, dry_run, override_existing,
                   probeOutcome, stack, video_files, scanned, skipped, response,
                   exitStatus>>

\* The engine exits: with status 0 after writing the subtitle file, or with a
\* non-zero status.  generate_subtitle returns and the loop counts the result.
EngineExit ==
    /\ pc = "engine"
    /\ LET video_file == video_files[idx]
           n == Len(invocations)
       IN \E outcome \in {"zero", "nonzero"} :
            /\ files' = IF outcome = "zero" THEN files \cup {EngineOutput(video_file)} ELSE files
            /\ invocations' = [invocations EXCEPT ![n].outcome = outcome,
                                                  ![n].result = generate_subtitle(outcome)]
            /\ out' = Append(out, <<IF generate_subtitle(outcome) THEN "Generated" ELSE "Failed",
                                    video_file>>)
            /\ Count(generate_subtitle(outcome))
    /\ idx' = idx + 1
    /\ pc' = "batch"
    /\ UNCHANGED <<denied, run, prev, directory, dry_run, override_existing,
                   probeOutcome, stack, video_files, scanned, skipped, response,
                   exitStatus>>

\* A slip: the exit status does not look at failed.
ExitCode_AlwaysZero(nfailed) == 0

\* sys.exit(0 if failed == 0 else 1)
ExitCode(nfailed) == IF nfailed = 0 THEN 0 ELSE 1

Summary ==
    /\ pc = "batch"
    /\ idx > Len(video_files)
    /\ Exit(ExitCode(failed), << <<"Completed", video_files>> >>)
    /\ UNCHANGED <<files, denied, run, prev, directory, dry_run, override_existing,
                   probeOutcome, stack, video_files, scanned, skipped, response,
                   successful, failed, idx, invocations>>

----------------------------------------------------------------------------

Next ==
    \/ Main
    \/ Probe
    \/ WalkStep
    \/ ScanDone
    \/ Filter
    \/ Gate
    \/ Prompt
    \/ Launch
    \/ EngineExit
    \/ Summary

Spec == Init /\ [][Next]_vars

----------------------------------------------------------------------------
(* Properties *)

ValidDirectory == exists(directory) /\ is_dir(directory)
Running == pc # "idle"
EngineInvoked == invocations # <<>> \/ pc = "engine"
CountOutcomes(S) == Cardinality({k \in 1..Len(invocations) : invocations[k].outcome \in S})
TreeHasNoVideo == \A f \in files : ~IsVideo(f)

\* C1: in a run with dry-run set the engine is never probed and never invoked,
\* no item is counted as successful or failed, and when the directory is valid
\* the run ends with exit status 0.
C1_DryRunLeavesEngineAlone ==
    (Running /\ dry_run) =>
        /\ probeOutcome = "none"
        /\ ~EngineInvoked
        /\ successful = 0
        /\ failed = 0
        /\ (pc = "exited" /\ ValidDirectory => exitStatus = 0)

C1_Witness ==
    /\ dry_run
    /\ pc = "exited"
    /\ exitStatus = 0
    /\ Printed("DryRunComplete")
    /\ Len(video_files) >= 2
    /\ skipped # <<>>

\* C2: under the skip-existing policy, at every engine invocation for a video
\* file that file's .srt sibling does not exist, also when two selected
\* candidates share a stem.
C2_NeverInvokedWithExistingSrt ==
    ~override_existing =>
        \A k \in 1..Len(invocations) : ~invocations[k].srtExisted

\* C3: when the batch loop has run to its end, the exit status is 0 exactly
\* when failed = 0 and 1 otherwise; failed counts the invocations that exited
\* non-zero or raised, successful those that exited zero, and they add up to
\* the number of selected items.
C3_ExitStatusFollowsFailed ==
    (pc = "exited" /\ Printed("Completed")) =>
        /\ exitStatus = (IF failed = 0 THEN 0 ELSE 1)
        /\ failed = CountOutcomes({"nonzero", "raise"})
        /\ successful = CountOutcomes({"zero"})
        /\ successful + failed = Len(video_files)

C3_Witness ==
    /\ pc = "exited"
    /\ Printed("Completed")
    /\ Len(video_files) = 3
    /\ CountOutcomes({"nonzero"}) = 1
    /\ successful = 2
    /\ failed = 1
    /\ exitStatus = 1

\* C4, as claimed: for a valid directory without video files every run reports
\* "No video files found" and exits 0 without the probe having been performed.
C4_NoVideoNoProbe ==
    (pc = "exited" /\ ValidDirectory /\ TreeHasNoVideo) =>
        /\ Printed("NoVideoFiles")
        /\ exitStatus = 0
        /\ probeOutcome = "none"

\* C4, amended: for a valid directory without video files, a dry run reports
\* "No video files found" and exits 0 unprobed; any other run probes first,
\* and reports "No video files found" and exits 0 when the probe succeeds,
\* and exits 1 without that report when it fails.
C4_NoVideoAfterProbe ==
    (pc = "exited" /\ ValidDirectory /\ TreeHasNoVideo) =>
        IF dry_run
        THEN probeOutcome = "none" /\ Printed("NoVideoFiles") /\ exitStatus = 0
        ELSE /\ probeOutcome # "none"
             /\ IF probeOutcome = "zero"
                THEN Printed("NoVideoFiles") /\ exitStatus = 0
                ELSE ~Printed("NoVideoFiles") /\ exitStatus = 1

C4_Witness ==
    /\ pc = "exited"
    /\ ValidDirectory
    /\ TreeHasNoVideo
    /\ ~dry_run
    /\ probeOutcome = "zero"
    /\ Printed("NoVideoFiles")
    /\ exitStatus = 0

\* The run under way follows, on the same tree and under skip-existing, a run
\* under skip-existing whose batch ran to its end with every invocation
\* successful.
AfterCleanRun ==
    /\ prev.completed
    /\ prev.failed = 0
    /\ ~prev.override_existing
    /\ prev.directory = directory
    /\ ~override_existing

Selecting == pc \in {"gate", "prompt", "batch", "engine"}

\* C5, as claimed: the second run selects zero candidates, never invokes the
\* engine and exits 0.
C5_SecondRunExitsZero ==
    AfterCleanRun =>
        /\ ~EngineInvoked
        /\ ~Selecting
        /\ (pc = "exited" => video_files = <<>> /\ exitStatus = 0)

\* C5, amended: the second run never invokes the engine and never selects a
\* candidate; when it is a dry run or its probe succeeds it finds every video
\* subtitled and exits 0, and when its probe fails it exits 1.
C5_SecondRunSelectsNothing ==
    AfterCleanRun =>
        /\ ~EngineInvoked
        /\ ~Selecting
        /\ (pc = "exited" =>
               /\ video_files = <<>>
               /\ IF dry_run \/ probeOutcome = "zero"
                  THEN exitStatus = 0 /\ Printed("AllHaveSubtitles")
                  ELSE exitStatus = 1)

C5_Witness ==
    /\ AfterCleanRun
    /\ ~dry_run
    /\ pc = "exited"
    /\ Printed("AllHaveSubtitles")
    /\ exitStatus = 0
    /\ Len(scanned) >= 2

\* The responses of the model that are "y" or "yes" up to case.
AffirmativeResponses == { <<"y">>, <<"Y","e","s">> }
Answered == response.read /\ ~response.eof

\* C6: without dry-run, one selected candidate goes to the engine without any
\* input being read; two or more block on the prompt, go on only on "y" or
\* "yes" in any case, and on any other response the run exits 0 without an
\* engine invocation.
C6_ConfirmationGate ==
    (Running /\ ~dry_run) =>
        /\ (pc = "prompt" => Len(video_files) >= 2 /\ ~response.read)
        /\ (response.read => Len(video_files) >= 2)
        /\ (Printed("Generating") /\ Len(video_files) >= 2 =>
                Answered /\ response.text \in AffirmativeResponses)
        /\ (Printed("WillProcess") /\ Len(video_files) = 1 =>
                ~response.read /\ Printed("Generating"))
        /\ (Answered /\ response.text \in AffirmativeResponses => Printed("Generating"))
        /\ (Answered /\ response.text \notin AffirmativeResponses =>
                /\ pc = "exited"
                /\ exitStatus = 0
                /\ Printed("Cancelled")
                /\ ~EngineInvoked)
        /\ (EngineInvoked => Printed("Generating"))

C6_Witness ==
    /\ ~dry_run
    /\ Len(video_files) >= 2
    /\ Answered
    /\ response.text = <<>>
    /\ pc = "exited"
    /\ exitStatus = 0

\* C7: a target that does not exist or is not a directory, and a failed probe
\* when dry-run is not set, end the run with status 1 before any scan and
\* without any transcription; a transcription only happens after the probe of
\* the same run has succeeded.
C7_EnvironmentErrorsAreFatal ==
    Running =>
        /\ (~ValidDirectory =>
                /\ pc = "exited"
                /\ exitStatus = 1
                /\ probeOutcome = "none"
                /\ ~Printed("Scanning")
                /\ ~EngineInvoked)
        /\ (~dry_run /\ probeOutcome \in {"nonzero", "timeout", "notfound"} =>
                /\ pc = "exited"
                /\ exitStatus = 1
                /\ ~Printed("Scanning")
                /\ ~EngineInvoked)
        /\ (EngineInvoked => probeOutcome = "zero")

C7_Witness ==
    /\ ~dry_run
    /\ probeOutcome = "timeout"
    /\ pc = "exited"
    /\ exitStatus = 1

IsSortedPaths(s) == \A i, j \in 1..Len(s) : i < j => PathLess(s[i], s[j])

\* C8: once the batch has started, the selected candidates go to the engine
\* once each, in the sorted order of the list, one invocation ending before
\* the next starts, whatever the earlier ones did; a failure marks its own
\* item only and the loop always reaches the end of the list.
C8_FailureIsolation ==
    (Running /\ Printed("Generating")) =>
        /\ IsSortedPaths(video_files)
        /\ Len(invocations) <= Len(video_files)
        /\ \A k \in 1..Len(invocations) :
            /\ invocations[k].file = video_files[k]
            /\ (invocations[k].outcome = "running" => k = Len(invocations) /\ pc = "engine")
            /\ (invocations[k].result <=> invocations[k].outcome = "zero")
        /\ failed = CountOutcomes({"nonzero", "raise"})
        /\ successful = CountOutcomes({"zero"})
        /\ (pc = "exited" => Len(invocations) = Len(video_files) /\ Printed("Completed"))

C8_Witness ==
    /\ pc = "exited"
    /\ Printed("Completed")
    /\ Len(invocations) = 3
    /\ invocations[1].outcome = "raise"
    /\ invocations[2].outcome = "nonzero"
    /\ invocations[3].outcome = "zero"

Filtered == Printed("WillProcess") \/ Printed("AllHaveSubtitles")

\* C9: the filter partitions the candidates: each is selected or skipped and
\* never both; the selected list is the input with the skipped ones left out,
\* in the same order; under skip-existing the skipped ones are those whose
\* same-stem .srt exists at filter time; under override-existing everything
\* is selected and nothing is skipped.
C9_FilterPartitions ==
    (Running /\ Filtered) =>
        /\ \A c \in Range(scanned) : (c \in Range(video_files)) # (c \in Range(skipped))
        /\ Range(video_files) \cup Range(skipped) \subseteq Range(scanned)
        /\ LET Kept(c) == c \in Range(video_files)
           IN video_files = SelectSeq(scanned, Kept)
        /\ (~override_existing /\ ~EngineInvoked =>
                \A c \in Range(scanned) :
                    c \in Range(skipped) <=> with_suffix(c, SRT) \in files)
        /\ (override_existing => video_files = scanned /\ skipped = <<>>)

C9_Witness ==
    /\ pc = "gate"
    /\ ~override_existing
    /\ Len(video_files) >= 2
    /\ skipped # <<>>

\* A directory is listed when it and the directories above it, down from the
\* target, can be.
RECURSIVE Accessible(_)
Accessible(d) ==
    /\ d \notin denied
    /\ (d # directory => Len(d) > 1 /\ Accessible(Parent(d)))

\* C10: a directory that cannot be listed is reported in a warning that names
\* it, and every video file of every directory that can be listed is returned.
C10_DeniedSubtreeIsReported ==
    (pc \in {"filter", "gate", "prompt", "batch", "engine"}) =>
        /\ \A d \in denied : PrintedWith("WarningPermissionDenied", d)
        /\ \A f \in files : IsVideo(f) /\ Accessible(Parent(f)) => f \in Range(scanned)

====
